---- MODULE Spec2Model ----
(***************************************************************************)
(* Model of plugins/modules/openssl_csr.py: one run of the module is       *)
(* main() -> CertificateSigningRequestModule.__init__ -> generate() or     *)
(* remove() -> dump().  The file system (the parent directory, the file at *)
(* path, the backup files) is shared state; every run is a process with a  *)
(* position (pc) in main().                                                *)
(***************************************************************************)
EXTENDS Naturals, Sequences, FiniteSets

VARIABLES
    dirOk,      \* os.path.isdir(base_dir)
    target,     \* the file at module.params['path']: [bytes, mode]
    backups,    \* the backup files made by backup_local, in creation order
    run,        \* per process: the state of its CertificateSigningRequestModule run
    prev        \* summary of the process's preceding run when it had the same request

vars == <<dirOk, target, backups, run, prev>>

(***************************************************************************)
(* Bounds and input sets                                                   *)
(***************************************************************************)
MaxBackups == 1
\* Backups in the specification of successive runs that all back up.
MaxBackupRuns == 2

Procs == {"a", "b"}
SeqProcs == {"a"}

\* DesiredSpec values (subject, extensions, signing key ...), kept opaque.
Specs == {"D1", "D2"}
\* Specs whose backend serialization is deterministic (same spec, same bytes).
DetSpecs == {"D1"}
\* Distinct byte strings that parse to the same CSR: the backend's canonical
\* output and another encoding (different signature randomness, line endings).
Encodings == {"canon", "alt"}

Modes == {"0644", "0600"}
DefaultMode == "0644"
\* module.params['mode'] (ansible.builtin.files fragment): unset or a mode.
ReqModes == {"none", "0600"}

(***************************************************************************)
(* File contents                                                           *)
(***************************************************************************)
NoBytes == [kind |-> "none", spec |-> "-", enc |-> "-"]
CorruptBytes == [kind |-> "corrupt", spec |-> "-", enc |-> "-"]
\* A file that holds only the first part of the bytes being written.
PartialBytes == [kind |-> "partial", spec |-> "-", enc |-> "-"]
Csr(d, e) == [kind |-> "csr", spec |-> d, enc |-> e]
CsrBytes == {Csr(d, e) : d \in Specs, e \in Encodings}
FileBytes == CsrBytes \cup {CorruptBytes}

NoFile == [bytes |-> NoBytes, mode |-> "-"]
Files == {[bytes |-> b, mode |-> m] : b \in FileBytes, m \in Modes}
Exists(f) == f.bytes.kind # "none"

Requests ==
    [state : {"present", "absent"}, force : BOOLEAN, check_mode : BOOLEAN,
     backup : BOOLEAN, spec : Specs, mode : ReqModes]

\* Requests of Apply runs with backup=true (file attributes left alone).
BackupRequests ==
    {req \in Requests : req.backup /\ ~req.check_mode /\ req.mode = "none"}

\* Requests of Apply runs for state present (file attributes left alone).
ConcRequests ==
    {req \in Requests :
        req.state = "present" /\ ~req.check_mode /\ req.mode = "none"}

NoRequest ==
    [state |-> "present", force |-> FALSE, check_mode |-> FALSE,
     backup |-> FALSE, spec |-> "D1", mode |-> "none"]

\* The result record of dump(): changed, and backup_file when one is reported.
NoOutcome == [changed |-> FALSE, has_backup |-> FALSE, backup_file |-> 0]

\* pc, req and the fields of CertificateSigningRequestModule; start, nbak (the
\* file and the number of backups when the run began), ops (the store and
\* backend operations the run has completed, in order), err and at (the error
\* kind and the step that failed) and out (the reported result) record the
\* run; tmp is the content of the temporary file write_file works on; after
\* tells whether another process had written path when this run wrote it.
IdleRun ==
    [pc |-> "idle", req |-> NoRequest, start |-> NoFile, nbak |-> 0,
     existing |-> NoBytes, result |-> NoBytes, tmp |-> NoBytes,
     after |-> FALSE, changed |-> FALSE, backup_file |-> 0, err |-> "none", at |-> "none", ops |-> <<>>,
     out |-> NoOutcome]

NoPrev == [valid |-> FALSE, check_mode |-> FALSE, changed |-> FALSE, ok |-> FALSE]

Finished(r) == r.pc \in {"idle", "done", "failed"}

Fail(r, kind) == [r EXCEPT !.pc = "failed", !.err = kind, !.at = r.pc]

Has(r, op) == \E i \in 1..Len(r.ops) : r.ops[i] = op

Init ==
    /\ dirOk \in BOOLEAN
    /\ target \in Files \cup {NoFile}
    /\ dirOk = FALSE => target = NoFile
    /\ backups = <<>>
    /\ run = [p \in Procs |-> IdleRun]
    /\ prev = NoPrev

(***************************************************************************)
(* Collaborators outside openssl_csr.py                                    *)
(***************************************************************************)
\* module_backend.needs_regeneration(): no existing bytes, bytes that do not
\* parse, or a parsed CSR that does not match the desired spec.
NeedsRegeneration(existing, d) ==
    \/ existing.kind # "csr"
    \/ existing.spec # d

\* module_backend.generate_csr() + get_csr_data(): the bytes a build can yield.
BuildOutputs(d) ==
    IF d \in DetSpecs THEN {Csr(d, "canon")} ELSE {Csr(d, e) : e \in Encodings}

\* load_file_if_exists(path): the bytes, or None for a missing file.
LoadFileIfExists(f) == f.bytes

\* Variant: write_file writes into path itself, piece by piece.
PathWhileWriting_InPlace(f, content) ==
    [bytes |-> PartialBytes, mode |-> IF Exists(f) THEN f.mode ELSE DefaultMode]

\* write_file(module, content), first half: the content goes into a temporary
\* file in the same directory; what path shows meanwhile.
PathWhileWriting(f, content) == f

\* write_file(module, content), second half: atomic move onto path; an
\* existing destination keeps its permission bits.
WriteFile(f, content) ==
    [bytes |-> content, mode |-> IF Exists(f) THEN f.mode ELSE DefaultMode]

\* module.backup_local(path): copies an existing file to a fresh sibling and
\* returns its name; returns '' (falsy, 0 here) when the file does not exist.
BackupName(f, bs) == IF Exists(f) THEN Len(bs) + 1 ELSE 0
BackupFiles(f, bs) == IF Exists(f) THEN Append(bs, f.bytes) ELSE bs

\* module.set_fs_attributes_if_different(file_args, changed)
AttrsDiffer(f, req) == req.mode # "none" /\ f.mode # req.mode

(***************************************************************************)
(* Decisions taken in openssl_csr.py                                       *)
(***************************************************************************)
\* Variants of the condition: one that always regenerates, one that ignores
\* force, one that ignores the backend's answer.
ShouldRegenerate_Always(req, existing) == TRUE
ShouldRegenerate_NoForce(req, existing) == NeedsRegeneration(existing, req.spec)
ShouldRegenerate_OnlyForce(req, existing) == req.force

\* generate(): if self.force or self.module_backend.needs_regeneration()
ShouldRegenerate(req, existing) ==
    req.force \/ NeedsRegeneration(existing, req.spec)

\* Variant: the check_mode test is missing.
GenerateMutates_Always(req) == TRUE

\* generate(): if not self.check_mode
GenerateMutates(req) == ~req.check_mode

\* Variant: the backup is skipped.
StepAfterBuild_NoBackup(req) == "gen_write"

\* generate(): if self.backup: ... backup_local; then write_file
StepAfterBuild(req) == IF req.backup THEN "gen_backup" ELSE "gen_write"

\* Variant: the bytes loaded at the start are written back.
WrittenBytes_Existing(r) == r.existing

\* generate(): write_file(module, result)
WrittenBytes(r) == r.result

\* Variant: remove() never backs up.
RemoveBacksUp_Never(req) == FALSE

\* Variant: write_file is called a second time.
StepAfterWrite_Again(r) == IF Has(r, "write") THEN "gen_attrs" ELSE "gen_write"

\* generate(): after write_file, self.changed = True and the file arguments
StepAfterWrite(r) == "gen_attrs"

\* remove(): if self.backup and not self.check_mode
RemoveBacksUp(req) == req.backup /\ ~req.check_mode

\* Variant: the base directory is not checked.
BaseDirIsDir_Unchecked(d) == TRUE

\* main(): os.path.isdir(base_dir)
BaseDirIsDir(d) == d

\* Variant: main() calls generate() whatever the state.
Dispatch_AlwaysGenerate(req) == "gen_decide"

\* main(): if module.params['state'] == 'present': generate else remove
Dispatch(req) == IF req.state = "present" THEN "gen_decide" ELSE "rem_backup"

\* Variant: changed is set inside the check_mode test.
RegenerateChanged_ApplyOnly(req) == ~req.check_mode

\* generate(): self.changed = True, after and outside the check_mode test
RegenerateChanged(req) == TRUE

\* Variants: backup_file is reported whenever a backup was asked for / never.
DumpHasBackup_IfAsked(r) == r.req.backup
DumpHasBackup_Never(r) == FALSE

\* dump(): if self.backup_file: result['backup_file'] = self.backup_file
DumpHasBackup(r) == r.backup_file # 0

\* dump(): the result record handed to module.exit_json.
Outcome(r) ==
    [changed |-> r.changed, has_backup |-> DumpHasBackup(r),
     backup_file |-> IF DumpHasBackup(r) THEN r.backup_file ELSE 0]

(***************************************************************************)
(* Steps of one run                                                        *)
(***************************************************************************)
\* Apply runs that asked for a backup and have not taken it yet.
PendingBackups(p) ==
    Cardinality({q \in Procs \ {p} :
        /\ ~Finished(run[q])
        /\ run[q].req.backup /\ ~run[q].req.check_mode
        /\ ~Has(run[q], "backup")})

SameRequest(r1, r2) == [r1 EXCEPT !.check_mode = FALSE] = [r2 EXCEPT !.check_mode = FALSE]

Summary(r) ==
    [valid |-> TRUE, check_mode |-> r.req.check_mode, changed |-> r.out.changed,
     ok |-> r.pc = "done"]

\* The module is invoked with a request from reqs, while fewer than cap
\* backup files exist.
StartWith(p, reqs, cap) ==
    \E req \in reqs :
        /\ (req.backup /\ ~req.check_mode) =>
               Len(backups) + PendingBackups(p) < cap
        /\ run' = [run EXCEPT ![p] =
               [IdleRun EXCEPT !.pc = "main", !.req = req, !.start = target,
                               !.nbak = Len(backups)]]
        /\ prev' = IF run[p].pc # "idle" /\ SameRequest(run[p].req, req)
                   THEN Summary(run[p]) ELSE NoPrev
        /\ UNCHANGED <<dirOk, target, backups>>

\* The module is invoked with any request.
Start(p) ==
    /\ Finished(run[p])
    /\ StartWith(p, Requests, MaxBackups)

\* The module is invoked for an Apply run with backup=true.
StartBackup(p) ==
    /\ Finished(run[p])
    /\ StartWith(p, BackupRequests, MaxBackupRuns)

\* The module is invoked once per process, for an Apply run for state present.
StartConc(p) ==
    /\ run[p].pc = "idle"
    /\ StartWith(p, ConcRequests, MaxBackups)

Did(r, op) == Append(r.ops, op)

\* main(): base_dir check, module.fail_json when it is not a directory.
CheckBaseDir(p) ==
    LET r == run[p] IN
    /\ r.pc = "main"
    /\ run' = [run EXCEPT ![p] =
           IF BaseDirIsDir(dirOk) THEN [r EXCEPT !.pc = "select"]
           ELSE Fail(r, "TargetDirectoryMissing")]
    /\ UNCHANGED <<dirOk, target, backups, prev>>

\* main(): select_backend(module, backend); OpenSSLObjectError -> fail_json.
SelectBackend(p) ==
    LET r == run[p] IN
    /\ r.pc = "select"
    /\ \/ run' = [run EXCEPT ![p] =
              [r EXCEPT !.pc = "construct", !.ops = Did(r, "select")]]
       \/ run' = [run EXCEPT ![p] = Fail(r, "BackendError")]
    /\ UNCHANGED <<dirOk, target, backups, prev>>

\* __init__(): changed = False, backup_file = None,
\* set_existing(load_file_if_exists(path)); then main() dispatches on state.
Construct(p) ==
    LET r == run[p] IN
    /\ r.pc = "construct"
    /\ \/ run' = [run EXCEPT ![p] =
              [r EXCEPT !.pc = Dispatch(r.req),
                        !.existing = LoadFileIfExists(target),
                        !.changed = FALSE, !.backup_file = 0,
                        !.ops = Did(r, "load")]]
       \/ /\ Exists(target)
          /\ run' = [run EXCEPT ![p] = Fail(r, "IOFailure")]
    /\ UNCHANGED <<dirOk, target, backups, prev>>

\* generate(): the condition of the outer if, and the check_mode test in it.
\* needs_regeneration() loads the signing key once the existing bytes parse,
\* which can raise OpenSSLObjectError.
GenDecide(p) ==
    LET r == run[p] IN
    /\ r.pc = "gen_decide"
    /\ \/ run' = [run EXCEPT ![p] =
              IF ShouldRegenerate(r.req, r.existing)
              THEN IF GenerateMutates(r.req)
                   THEN [r EXCEPT !.pc = "gen_build"]
                   ELSE [r EXCEPT !.pc = "gen_attrs",
                                  !.changed = RegenerateChanged(r.req)]
              ELSE [r EXCEPT !.pc = "gen_attrs"]]
       \/ /\ ~r.req.force
          /\ r.existing.kind = "csr"
          /\ run' = [run EXCEPT ![p] = Fail(r, "BackendError")]
    /\ UNCHANGED <<dirOk, target, backups, prev>>

\* Variant of GenBuild: the backup is taken before generate_csr() is called.
GenBuild_BackupFirst(p) ==
    LET r == run[p] IN
    /\ r.pc = "gen_build"
    /\ \/ /\ \E b \in BuildOutputs(r.req.spec) :
                 run' = [run EXCEPT ![p] =
                     [r EXCEPT !.pc = StepAfterBuild(r.req), !.result = b,
                               !.ops = Did(r, "build")]]
          /\ UNCHANGED backups
       \/ /\ run' = [run EXCEPT ![p] = Fail(r, "BackendError")]
          /\ backups' = IF r.req.backup THEN BackupFiles(target, backups)
                        ELSE backups
    /\ UNCHANGED <<dirOk, target, prev>>

\* generate(): module_backend.generate_csr(); result = get_csr_data()
GenBuild(p) ==
    LET r == run[p] IN
    /\ r.pc = "gen_build"
    /\ \/ \E b \in BuildOutputs(r.req.spec) :
              run' = [run EXCEPT ![p] =
                  [r EXCEPT !.pc = StepAfterBuild(r.req), !.result = b,
                            !.ops = Did(r, "build")]]
       \/ run' = [run EXCEPT ![p] = Fail(r, "BackendError")]
    /\ UNCHANGED <<dirOk, target, backups, prev>>

\* Variant of GenBackup: the copy goes to one fixed sibling name instead of
\* the name backup_local picks.
GenBackup_FixedName(p) ==
    LET r == run[p] IN
    /\ r.pc = "gen_backup"
    /\ run' = [run EXCEPT ![p] =
           [r EXCEPT !.pc = "gen_write",
                     !.backup_file = IF Exists(target) THEN 1 ELSE 0,
                     !.ops = Did(r, "backup")]]
    /\ backups' = IF ~Exists(target) THEN backups
                  ELSE IF Len(backups) = 0 THEN <<target.bytes>>
                  ELSE [backups EXCEPT ![1] = target.bytes]
    /\ UNCHANGED <<dirOk, target, prev>>

\* generate(): self.backup_file = module.backup_local(self.path)
GenBackup(p) ==
    LET r == run[p] IN
    /\ r.pc = "gen_backup"
    /\ \/ /\ run' = [run EXCEPT ![p] =
                 [r EXCEPT !.pc = "gen_write",
                           !.backup_file = BackupName(target, backups),
                           !.ops = Did(r, "backup")]]
          /\ backups' = BackupFiles(target, backups)
       \/ /\ Exists(target)
          /\ run' = [run EXCEPT ![p] = Fail(r, "BackupFailure")]
          /\ UNCHANGED backups
    /\ UNCHANGED <<dirOk, target, prev>>

\* generate(): write_file(module, result) -- the temporary file is written.
GenWrite(p) ==
    LET r == run[p] IN
    /\ r.pc = "gen_write"
    /\ \/ /\ target' = PathWhileWriting(target, WrittenBytes(r))
          /\ run' = [run EXCEPT ![p] =
                 [r EXCEPT !.pc = "gen_move", !.tmp = WrittenBytes(r)]]
       \/ /\ run' = [run EXCEPT ![p] = Fail(r, "IOFailure")]
          /\ UNCHANGED target
    /\ UNCHANGED <<dirOk, backups, prev>>

\* generate(): write_file(module, result) -- the temporary file is moved onto
\* path; then self.changed = True
GenMove(p) ==
    LET r == run[p] IN
    /\ r.pc = "gen_move"
    /\ \/ /\ target' = WriteFile(target, r.tmp)
          /\ run' = [run EXCEPT ![p] =
                 [r EXCEPT !.pc = StepAfterWrite(r), !.tmp = NoBytes,
                           !.after = \E q \in Procs \ {p} : Has(run[q], "write"),
                           !.changed = RegenerateChanged(r.req),
                           !.ops = Did(r, "write")]]
       \/ /\ run' = [run EXCEPT ![p] = Fail([r EXCEPT !.tmp = NoBytes], "IOFailure")]
          /\ UNCHANGED target
    /\ UNCHANGED <<dirOk, backups, prev>>

\* generate(): check_file_absent_if_check_mode / set_fs_attributes_if_different
GenAttrs(p) ==
    LET r == run[p] IN
    /\ r.pc = "gen_attrs"
    /\ IF ~Exists(target)
       THEN /\ run' = [run EXCEPT ![p] =
                   IF r.req.check_mode
                   THEN [r EXCEPT !.pc = "dump", !.changed = TRUE]
                   ELSE IF r.req.mode = "none"
                        THEN [r EXCEPT !.pc = "dump"]
                        ELSE Fail(r, "IOFailure")]
            /\ UNCHANGED target
       ELSE /\ run' = [run EXCEPT ![p] =
                   [r EXCEPT !.pc = "dump",
                             !.changed = r.changed \/ AttrsDiffer(target, r.req),
                             !.ops = IF AttrsDiffer(target, r.req) /\ ~r.req.check_mode
                                     THEN Did(r, "chmod") ELSE r.ops]]
            /\ target' = IF AttrsDiffer(target, r.req) /\ ~r.req.check_mode
                         THEN [target EXCEPT !.mode = r.req.mode] ELSE target
    /\ UNCHANGED <<dirOk, backups, prev>>

\* remove(): set_existing(None); backup_local when backup and not check_mode
RemBackup(p) ==
    LET r == run[p] IN
    /\ r.pc = "rem_backup"
    /\ \/ /\ run' = [run EXCEPT ![p] =
                 IF RemoveBacksUp(r.req)
                 THEN [r EXCEPT !.pc = "rem_delete", !.existing = NoBytes,
                                !.backup_file = BackupName(target, backups),
                                !.ops = Did(r, "backup")]
                 ELSE [r EXCEPT !.pc = "rem_delete", !.existing = NoBytes]]
          /\ backups' = IF RemoveBacksUp(r.req)
                        THEN BackupFiles(target, backups) ELSE backups
       \/ /\ RemoveBacksUp(r.req)
          /\ Exists(target)
          /\ run' = [run EXCEPT ![p] = Fail(r, "BackupFailure")]
          /\ UNCHANGED backups
    /\ UNCHANGED <<dirOk, target, prev>>

\* remove(): super().remove(module) -- OpenSSLObject.remove: under check_mode
\* only report whether the file exists; else unlink, a missing file is no error.
RemDelete(p) ==
    LET r == run[p] IN
    /\ r.pc = "rem_delete"
    /\ \/ /\ run' = [run EXCEPT ![p] =
                 IF r.req.check_mode
                 THEN [r EXCEPT !.pc = "dump", !.changed = Exists(target)]
                 ELSE IF Exists(target)
                      THEN [r EXCEPT !.pc = "dump", !.changed = TRUE,
                                     !.ops = Did(r, "delete")]
                      ELSE [r EXCEPT !.pc = "dump"]]
          /\ target' = IF r.req.check_mode THEN target ELSE NoFile
       \/ /\ ~r.req.check_mode
          /\ Exists(target)
          /\ run' = [run EXCEPT ![p] = Fail(r, "IOFailure")]
          /\ UNCHANGED target
    /\ UNCHANGED <<dirOk, backups, prev>>

\* main(): result = csr.dump(); module.exit_json(**result)
Dump(p) ==
    LET r == run[p] IN
    /\ r.pc = "dump"
    /\ run' = [run EXCEPT ![p] =
           [r EXCEPT !.pc = "done", !.out = Outcome(r)]]
    /\ UNCHANGED <<dirOk, target, backups, prev>>

Step(p) ==
    \/ Start(p)
    \/ CheckBaseDir(p)
    \/ SelectBackend(p)
    \/ Construct(p)
    \/ GenDecide(p)
    \/ GenBuild(p)
    \/ GenBackup(p)
    \/ GenWrite(p)
    \/ GenMove(p)
    \/ GenAttrs(p)
    \/ RemBackup(p)
    \/ RemDelete(p)
    \/ Dump(p)

\* Runs one after the other.
Next == \E p \in SeqProcs : Step(p)

Spec == Init /\ [][Next]_vars

\* Runs one after the other, each an Apply run with backup=true.
StepBackup(p) ==
    \/ StartBackup(p)
    \/ CheckBaseDir(p)
    \/ SelectBackend(p)
    \/ Construct(p)
    \/ GenDecide(p)
    \/ GenBuild(p)
    \/ GenBackup(p)
    \/ GenWrite(p)
    \/ GenMove(p)
    \/ GenAttrs(p)
    \/ RemBackup(p)
    \/ RemDelete(p)
    \/ Dump(p)

NextBackup == \E p \in SeqProcs : StepBackup(p)

SpecBackup == Init /\ [][NextBackup]_vars

\* Two processes, each one Apply run for state present on the same path,
\* their steps interleaved (no lock is taken anywhere in main()).
StepConc(p) ==
    \/ StartConc(p)
    \/ CheckBaseDir(p)
    \/ SelectBackend(p)
    \/ Construct(p)
    \/ GenDecide(p)
    \/ GenBuild(p)
    \/ GenBackup(p)
    \/ GenWrite(p)
    \/ GenMove(p)
    \/ GenAttrs(p)
    \/ Dump(p)

NextConc == \E p \in Procs : StepConc(p)

SpecConc == Init /\ [][NextConc]_vars

(***************************************************************************)
(* Properties                                                              *)
(***************************************************************************)
Present(r) == r.req.state = "present"
Apply(r) == ~r.req.check_mode
\* The state the run started from, as the backend classifies it for r's spec.
StartMatches(r) == ~NeedsRegeneration(r.start.bytes, r.req.spec)
\* The preceding run had the same request, was an Apply run and succeeded.
AfterApply == prev.valid /\ prev.ok /\ ~prev.check_mode
\* The preceding run had the same request, was a Simulate run and succeeded.
AfterSimulate == prev.valid /\ prev.ok /\ prev.check_mode

\* C1 as stated: of two successive Apply runs with the same request for state
\* present, the first reports changed=true, the second changed=false, and the
\* second leaves the bytes as the first left them.
C1_AsStated ==
    \A p \in Procs :
        LET r == run[p] IN
        (r.pc = "done" /\ Present(r) /\ Apply(r) /\ AfterApply) =>
            /\ prev.changed
            /\ ~r.out.changed
            /\ target.bytes = r.start.bytes

\* C1 amended: with force=false, an Apply run for state present reports
\* changed=true exactly when the file it started from was absent, unparseable,
\* mismatched or had other file attributes than requested; an Apply run that
\* follows a successful Apply run with the same request reports changed=false
\* and leaves the file as it found it.
C1_Idempotence ==
    \A p \in Procs :
        LET r == run[p] IN
        (r.pc = "done" /\ Present(r) /\ Apply(r) /\ ~r.req.force) =>
            /\ r.out.changed <=> (~StartMatches(r) \/ AttrsDiffer(r.start, r.req))
            /\ AfterApply => (~r.out.changed /\ target = r.start)

C1_Witness ==
    \E p \in Procs :
        LET r == run[p] IN
        /\ r.pc = "done" /\ Present(r) /\ Apply(r) /\ ~r.req.force
        /\ AfterApply /\ prev.changed /\ ~r.out.changed
        /\ target = r.start

\* C2: after a successful Apply run for state present with spec D, the bytes
\* at path parse and match D.
C2_Convergence ==
    \A p \in Procs :
        LET r == run[p] IN
        (r.pc = "done" /\ Present(r) /\ Apply(r)) =>
            /\ Exists(target)
            /\ ~NeedsRegeneration(target.bytes, r.req.spec)

C2_Witness ==
    \E p \in Procs :
        LET r == run[p] IN
        /\ r.pc = "done" /\ Present(r) /\ Apply(r)
        /\ r.start.bytes = CorruptBytes
        /\ Has(r, "write")
        /\ ~NeedsRegeneration(target.bytes, r.req.spec)

\* C3: a check-mode run, whatever its request, never changes the file at path
\* (bytes or attributes), never deletes it and creates no backup file.
C3_SimulatePurity ==
    \A p \in Procs :
        LET r == run[p] IN
        (r.pc # "idle" /\ r.req.check_mode) =>
            /\ target = r.start
            /\ Len(backups) = r.nbak
            /\ r.backup_file = 0

C3_Witness ==
    \E p \in Procs :
        LET r == run[p] IN
        /\ r.pc = "done" /\ r.req.check_mode /\ r.req.backup
        /\ Exists(r.start) /\ r.out.changed
        /\ target = r.start

\* C4: an Apply run started from the state a Simulate run with the same
\* request (state, force, backup, spec, file attributes) was started from
\* reports the changed value the Simulate run reported.
C4_SimulateApplyAgree ==
    \A p \in Procs :
        LET r == run[p] IN
        (r.pc = "done" /\ Apply(r) /\ AfterSimulate) =>
            r.out.changed = prev.changed

C4_Witness ==
    \E p \in Procs :
        LET r == run[p] IN
        /\ r.pc = "done" /\ Apply(r) /\ AfterSimulate
        /\ Present(r) /\ Exists(r.start) /\ ~StartMatches(r)
        /\ prev.changed /\ r.out.changed

\* The run built and wrote a new artifact.
Regenerated(r) == Has(r, "build") /\ Has(r, "write")
\* The table's condition for regenerating.
MustRegenerate(r) == ~Exists(r.start) \/ ~StartMatches(r) \/ r.req.force

\* C5 as stated: an Apply run for state present regenerates exactly when the
\* file is absent, mismatched or force is set; otherwise it does not build,
\* back up or write and reports changed=false.
C5_AsStated ==
    \A p \in Procs :
        LET r == run[p] IN
        (r.pc = "done" /\ Present(r) /\ Apply(r)) =>
            /\ Regenerated(r) <=> MustRegenerate(r)
            /\ ~MustRegenerate(r) =>
                   /\ ~Has(r, "build") /\ ~Has(r, "backup") /\ ~Has(r, "write")
                   /\ ~r.out.changed

\* C5 amended: as stated, except that the run on a matching file with
\* force=false reports changed=false only when the file's attributes are as
\* requested; when they differ it adjusts them, still without build, backup
\* or write, and reports changed=true.
C5_TransitionTable ==
    \A p \in Procs :
        LET r == run[p] IN
        (r.pc = "done" /\ Present(r) /\ Apply(r)) =>
            /\ Regenerated(r) <=> MustRegenerate(r)
            /\ ~MustRegenerate(r) =>
                   /\ ~Has(r, "build") /\ ~Has(r, "backup") /\ ~Has(r, "write")
                   /\ target.bytes = r.start.bytes
                   /\ Len(backups) = r.nbak
                   /\ r.out.changed <=> AttrsDiffer(r.start, r.req)

C5_Witness ==
    \E p \in Procs :
        LET r == run[p] IN
        /\ r.pc = "done" /\ Present(r) /\ Apply(r)
        /\ ~MustRegenerate(r) /\ r.req.backup
        /\ ~r.out.changed /\ r.ops = <<"select", "load">>

\* A write or a delete of the file at path.
Destructive(op) == op \in {"write", "delete"}

\* C6: in an Apply run with backup=true the backup has completed before the
\* write or the delete of path begins, and a run whose backup failed has
\* failed without overwriting or deleting path.
C6_BackupOrdering ==
    \A p \in Procs :
        LET r == run[p] IN
        (r.req.backup /\ Apply(r)) =>
            /\ (r.pc \in {"gen_write", "gen_move", "rem_delete"}
                    \/ Has(r, "write") \/ Has(r, "delete"))
                   => Has(r, "backup")
            /\ \A i, j \in 1..Len(r.ops) :
                   (r.ops[i] = "backup" /\ Destructive(r.ops[j])) => i < j
            /\ r.err = "BackupFailure" =>
                   /\ r.pc = "failed"
                   /\ ~Has(r, "write") /\ ~Has(r, "delete")
                   /\ target = r.start

C6_Witness ==
    \E p \in Procs :
        LET r == run[p] IN
        /\ r.pc = "done" /\ r.req.backup /\ Apply(r) /\ Present(r)
        /\ Exists(r.start)
        /\ r.ops = <<"select", "load", "build", "backup", "write">>
        /\ r.out.has_backup

\* The reported backup file holds the bytes path held when the run began.
BackupHoldsOriginal(r) ==
    /\ r.out.has_backup
    /\ r.out.backup_file \in 1..Len(backups)
    /\ backups[r.out.backup_file] = r.start.bytes

C8_CorruptSelfHeal ==
    \A p \in Procs :
        LET r == run[p] IN
        (r.pc # "idle" /\ Present(r) /\ Apply(r) /\ r.start.bytes = CorruptBytes) =>
            /\ r.pc = "failed" => r.at # "gen_decide"
            /\ r.pc \in {"gen_attrs", "dump", "done"} => Regenerated(r)
            /\ r.pc = "done" =>
                   /\ r.out.changed
                   /\ r.existing = CorruptBytes
                   /\ target.bytes \in BuildOutputs(r.req.spec)

C8_Witness ==
    \E p \in Procs :
        LET r == run[p] IN
        /\ r.pc = "done" /\ Present(r) /\ Apply(r) /\ ~r.req.force
        /\ r.start.bytes = CorruptBytes
        /\ r.out.changed /\ Regenerated(r)
        /\ target.bytes \in BuildOutputs(r.req.spec)

\* The spec's backend serialization is deterministic.
Deterministic(d) == Cardinality(BuildOutputs(d)) = 1

\* C9 as stated: from a matching file with force=true an Apply run reports
\* changed=true and writes an artifact of the same logical content; with a
\* deterministic serialization the bytes after equal the bytes before.
C9_AsStated ==
    \A p \in Procs :
        LET r == run[p] IN
        (r.pc = "done" /\ Present(r) /\ Apply(r) /\ r.req.force
             /\ Exists(r.start) /\ StartMatches(r)) =>
            /\ r.out.changed /\ Regenerated(r)
            /\ ~NeedsRegeneration(target.bytes, r.req.spec)
            /\ Deterministic(r.req.spec) => target.bytes = r.start.bytes

\* C9 amended: as stated, except that with a deterministic serialization the
\* bytes after the run are the backend's serialization of the spec; they equal
\* the bytes before the run when the file already held that serialization
\* (a matching file in another encoding of the same CSR is rewritten).
C9_ForceSemantics ==
    \A p \in Procs :
        LET r == run[p] IN
        (r.pc = "done" /\ Present(r) /\ Apply(r) /\ r.req.force
             /\ Exists(r.start) /\ StartMatches(r)) =>
            /\ r.out.changed /\ Regenerated(r)
            /\ ~NeedsRegeneration(target.bytes, r.req.spec)
            /\ Deterministic(r.req.spec) =>
                   /\ target.bytes \in BuildOutputs(r.req.spec)
                   /\ r.start.bytes \in BuildOutputs(r.req.spec)
                          => target.bytes = r.start.bytes

C9_Witness ==
    \E p \in Procs :
        LET r == run[p] IN
        /\ r.pc = "done" /\ Present(r) /\ Apply(r) /\ r.req.force
        /\ Exists(r.start) /\ StartMatches(r)
        /\ Deterministic(r.req.spec)
        /\ r.out.changed /\ Has(r, "write")
        /\ target.bytes = r.start.bytes

\* C10: a run for state absent that finds no file at path does not fail in
\* remove() (only the base directory check or the backend selection can fail
\* it), creates no backup file and no file at path, and reports changed=false
\* and no backup_file, whatever force, backup and check_mode are.
C10_AbsentNoOp ==
    \A p \in Procs :
        LET r == run[p] IN
        (r.pc # "idle" /\ r.req.state = "absent" /\ ~Exists(r.start)) =>
            /\ r.pc = "failed" => r.at \in {"main", "select"}
            /\ Len(backups) = r.nbak
            /\ ~Exists(target)
            /\ ~Has(r, "delete")
            /\ r.pc = "done" => (~r.out.changed /\ ~r.out.has_backup)

C10_Witness ==
    \E p \in Procs :
        LET r == run[p] IN
        /\ r.pc = "done" /\ r.req.state = "absent" /\ ~Exists(r.start)
        /\ r.req.backup /\ Apply(r) /\ Has(r, "backup")
        /\ ~r.out.changed /\ ~r.out.has_backup
        /\ backups = <<>>

\* C11: an Apply run for state absent that finds a file at path deletes it,
\* whatever force is, after backing it up when backup=true (the reported
\* backup file holds the original bytes), and reports changed=true;
\* afterwards no file exists at path.
C11_Removal ==
    \A p \in Procs :
        LET r == run[p] IN
        (r.pc = "done" /\ r.req.state = "absent" /\ Apply(r) /\ Exists(r.start)) =>
            /\ Has(r, "delete")
            /\ ~Exists(target)
            /\ r.out.changed
            /\ r.req.backup =>
                   /\ r.ops = <<"select", "load", "backup", "delete">>
                   /\ BackupHoldsOriginal(r)
            /\ ~r.req.backup => (~r.out.has_backup /\ Len(backups) = r.nbak)

C11_Witness ==
    \E p \in Procs :
        LET r == run[p] IN
        /\ r.pc = "done" /\ r.req.state = "absent" /\ Apply(r) /\ Exists(r.start)
        /\ r.req.backup /\ r.req.force
        /\ ~Exists(target) /\ r.out.changed
        /\ BackupHoldsOriginal(r)

\* C12: when the parent directory of path does not exist, a run (Apply or
\* check mode, state present or absent) fails in the base directory check
\* before anything else: no backend is selected, no file loaded, no backup,
\* write or delete happens.
C12_TargetDirectoryMissing ==
    \A p \in Procs :
        LET r == run[p] IN
        (~dirOk /\ r.pc \notin {"idle", "main"}) =>
            /\ r.pc = "failed"
            /\ r.err = "TargetDirectoryMissing"
            /\ r.at = "main"
            /\ r.ops = <<>>
            /\ target = r.start
            /\ Len(backups) = r.nbak

C12_Witness ==
    \E p \in Procs :
        LET r == run[p] IN
        /\ ~dirOk /\ r.pc = "failed" /\ r.err = "TargetDirectoryMissing"
        /\ r.req.state = "absent" /\ r.req.check_mode
        /\ r.ops = <<>>

\* C13: a run that fails with a backend error (raised while selecting the
\* backend, comparing or building) leaves path exactly as it was when the
\* run began and has created no backup.
C13_BackendErrorsFatal ==
    \A p \in Procs :
        LET r == run[p] IN
        r.err = "BackendError" =>
            /\ r.pc = "failed"
            /\ target = r.start
            /\ Len(backups) = r.nbak
            /\ r.backup_file = 0
            /\ ~Has(r, "backup") /\ ~Has(r, "write") /\ ~Has(r, "delete")
            /\ ~Has(r, "chmod")

C13_Witness ==
    \E p \in Procs :
        LET r == run[p] IN
        /\ r.err = "BackendError" /\ r.pc = "failed" /\ r.at = "gen_build"
        /\ r.req.backup /\ Apply(r) /\ Exists(r.start)
        /\ target = r.start /\ Len(backups) = r.nbak

\* C14: whoever reads path while an Apply run writes it sees the complete
\* content the run found there (or no file) until the move, and the complete
\* new content from then on; path never holds partially written bytes.
C14_AtomicWrite ==
    /\ target.bytes.kind # "partial"
    /\ \A p \in Procs :
           LET r == run[p] IN
           (r.pc # "idle" /\ Present(r) /\ Apply(r)) =>
               /\ ~Has(r, "write") => target.bytes = r.start.bytes
               /\ Has(r, "write") =>
                      (target.bytes = r.result /\ r.result \in CsrBytes)

C14_Witness ==
    \E p \in Procs :
        LET r == run[p] IN
        /\ r.pc = "gen_move" /\ Present(r) /\ Apply(r)
        /\ Exists(r.start)
        /\ r.tmp = r.result /\ r.result # r.start.bytes
        /\ target = r.start

\* C15: the result holds backup_file only if backup=true, the run was an
\* Apply run reporting changed=true and it created that backup file itself;
\* a run that ends as a no-op (matching file without force, or absent file
\* with state absent) creates no backup even when backup=true.
C15_BackupReporting ==
    \A p \in Procs :
        LET r == run[p] IN
        r.pc = "done" =>
            /\ r.out.has_backup =>
                   /\ r.req.backup /\ Apply(r)
                   /\ r.out.changed
                   /\ Len(backups) = r.nbak + 1
                   /\ r.out.backup_file = Len(backups)
            /\ (~Has(r, "write") /\ ~Has(r, "delete")) =>
                   (~r.out.has_backup /\ Len(backups) = r.nbak)

C15_Witness ==
    \E p \in Procs :
        LET r == run[p] IN
        /\ r.pc = "done" /\ r.req.backup /\ Apply(r) /\ Present(r)
        /\ Exists(r.start) /\ StartMatches(r) /\ ~r.req.force
        /\ Has(r, "backup") = FALSE
        /\ ~r.out.has_backup /\ Len(backups) = r.nbak

\* The number of times the run has completed op.
Count(r, op) == Cardinality({i \in 1..Len(r.ops) : r.ops[i] = op})
\* Every op of kind a the run completed came before every op of kind b.
Before(r, a, b) ==
    \A i, j \in 1..Len(r.ops) : (r.ops[i] = a /\ r.ops[j] = b) => i < j

\* C16: a run loads the file at path once, before anything it does to it, and
\* writes path at most once, after the load, the build and the backup when
\* there is one; the write is the last thing it does to the bytes at path.
C16_SingleWrite ==
    \A p \in Procs :
        LET r == run[p] IN
        /\ Count(r, "load") <= 1
        /\ Count(r, "write") <= 1
        /\ Count(r, "build") <= 1
        /\ Has(r, "write") =>
               /\ Has(r, "load") /\ Has(r, "build")
               /\ Before(r, "load", "write")
               /\ Before(r, "build", "write")
               /\ Before(r, "backup", "write")
               /\ r.req.backup => Has(r, "backup")
        /\ r.pc \in {"gen_write", "gen_move"} => (Has(r, "load") /\ Has(r, "build"))
        /\ Has(r, "delete") => ~Has(r, "write")

C16_Witness ==
    \E p \in Procs :
        LET r == run[p] IN
        /\ r.pc = "done" /\ Exists(r.start) /\ r.req.mode # "none"
        /\ r.ops = <<"select", "load", "build", "backup", "write", "chmod">>

\* The bytes the run found at path are still at path or in its backup file.
OriginalRecoverable(r) ==
    \/ target.bytes = r.start.bytes
    \/ /\ r.backup_file \in 1..Len(backups)
       /\ backups[r.backup_file] = r.start.bytes

\* C18: at every point of an Apply run with backup=true on an existing file
\* (also after it failed) the bytes it found are at path or in its backup
\* file, and a backup it has taken is still there when it has failed.
C18_CrashRecoverable ==
    \A p \in Procs :
        LET r == run[p] IN
        (r.pc # "idle" /\ r.req.backup /\ Apply(r) /\ Exists(r.start)) =>
            /\ OriginalRecoverable(r)
            /\ Has(r, "backup") =>
                   /\ r.backup_file = r.nbak + 1
                   /\ Len(backups) >= r.backup_file
                   /\ backups[r.backup_file] = r.start.bytes

C18_Witness ==
    \E p \in Procs :
        LET r == run[p] IN
        /\ r.pc = "failed" /\ r.at = "gen_move" /\ r.req.backup /\ Apply(r)
        /\ Exists(r.start) /\ Has(r, "backup")
        /\ target = r.start
        /\ backups[r.backup_file] = r.start.bytes

\* C20: a run for state absent never reaches the comparison or the build of
\* generate(); what it deletes, backs up and reports depends only on whether
\* a file exists at path, so an unparseable file is backed up (when asked),
\* deleted and reported as changed like any other.
C20_RemovalIgnoresContent ==
    \A p \in Procs :
        LET r == run[p] IN
        r.req.state = "absent" =>
            /\ r.pc \notin {"gen_decide", "gen_build", "gen_backup", "gen_write",
                            "gen_move", "gen_attrs"}
            /\ ~Has(r, "build") /\ ~Has(r, "write") /\ ~Has(r, "chmod")
            /\ r.pc = "done" =>
                   /\ r.existing = NoBytes
                   /\ r.out.changed <=> Exists(r.start)
                   /\ Has(r, "delete") <=> (Exists(r.start) /\ Apply(r))
                   /\ r.out.has_backup <=>
                          (Exists(r.start) /\ Apply(r) /\ r.req.backup)
                   /\ r.out.has_backup => BackupHoldsOriginal(r)

C20_Witness ==
    \E p \in Procs :
        LET r == run[p] IN
        /\ r.pc = "done" /\ r.req.state = "absent" /\ Apply(r) /\ r.req.backup
        /\ r.start.bytes = CorruptBytes
        /\ r.out.changed /\ Has(r, "delete") /\ ~Exists(target)
        /\ BackupHoldsOriginal(r)

Writers == {p \in Procs : Has(run[p], "write")}

LastWriters ==
    {p \in Writers : run[p].after \/ Cardinality(Writers) = 1}

\* C19: with two runs racing on one path, path never holds a mixture: at
\* every moment it is either what was there or one run's complete output, and
\* once both runs are over it holds exactly the output of the run that
\* replaced it last.
C19_LastWriterWins ==
    /\ Exists(target) => target.bytes.kind # "partial"
    /\ (Writers # {}) =>
           /\ Exists(target)
           /\ Cardinality(LastWriters) = 1
           /\ \A p \in LastWriters :
                  /\ target.bytes = run[p].result
                  /\ target.bytes \in CsrBytes

\* Both runs loaded the same content, both decided to regenerate and both
\* wrote; their outputs differ and path holds the later one.
C19_Witness ==
    \E p \in Procs : \E q \in Procs \ {p} :
        /\ run[p].pc = "done" /\ run[q].pc = "done"
        /\ Has(run[p], "write") /\ Has(run[q], "write")
        /\ run[p].existing = run[q].existing
        /\ run[p].start = run[q].start
        /\ run[p].result # run[q].result
        /\ run[p].after /\ ~run[q].after
        /\ target.bytes = run[p].result

====
